---- MODULE Spec2Model ----
(***************************************************************************)
(* Model of script.js (portfolio page script): the event-rate limiters     *)
(* throttle and debounce over the browser's clock and timer queue, and the *)
(* active-section tracker of PortfolioApp over a page of sections and      *)
(* navigation links.                                                       *)
(***************************************************************************)
EXTENDS Integers, Sequences, FiniteSets, TLC

VARIABLES
    now,            \* Date.now(), in ms
    delay,          \* the delay argument of throttle / debounce
    lastExecTime,   \* throttle's closure variable
    timeoutId,      \* the wrapper's closure variable (0: undefined)
    timers,         \* the browser's pending timers: [id, cb, due, arg]
    nextId,         \* the id the next setTimeout returns
    callLog,        \* history: the time of every call of the wrapper (the call's
                    \* argument is its index in this log)
    execLog,        \* history: every execution of func: [t, arg, sync]
    run,            \* "free": events at any time; "example": events as scripted
    script,         \* the call times still to come, relative to start (example runs)
    start,          \* the clock value when the wrapper is created
    page,           \* the document: elements.sections, elements.navLinks, elements.nav
    scrollY,        \* window.scrollY
    currentSection, \* PortfolioApp.currentSection
    active,         \* per NavLink: its classList contains 'active'
    navScrolled,    \* the navigation bar has the background of a scrolled page
    raised,         \* the last handler to run ended by throwing
    handled,        \* the scroll handler has run since the last scroll
    navTarget,      \* the section the last nav click scrolled to (0: none, or
                    \* the user has scrolled since)
    dispatch,       \* a scroll event waits for its listener to be called
    field,          \* a field of the contact form: [type, required]
    value,          \* field.value, a sequence of characters
    errorClass,     \* field.classList contains 'error'
    messages,       \* the .error-message elements in the field's parent
    isValid,        \* what the last validateField returned
    lastEvent       \* history: the last event on the field

limiterVars == <<now, delay, lastExecTime, timeoutId, timers, nextId,
                 callLog, execLog, run, script, start>>

trackerVars == <<page, scrollY, currentSection, active, navScrolled, raised, handled,
                 navTarget, dispatch>>

formVars == <<field, value, errorClass, messages, isValid, lastEvent>>

vars == <<limiterVars, trackerVars, formVars>>

----------------------------------------------------------------------------
(* Bounds of the model *)

MaxDelay == 3       \* delays 0..MaxDelay in the free-running limiter runs
MaxStart == 3       \* the clock reads 0..MaxStart when the wrapper is created
MaxTime == 8        \* the clock stops advancing here in the free-running runs
MaxCalls == 4       \* calls of the wrapper per run
MaxLate == 2        \* a timer fires at most this long after its deadline

Epoch == 1000       \* a wall-clock reading (ms since 1970) in the example runs
ExampleDelay == 50  \* the delay of the worked examples
ExampleEnd == 130   \* the example runs are followed up to this offset

----------------------------------------------------------------------------
(* The browser: setTimeout, clearTimeout *)

ClearTimeoutNoop(ts, id) == ts

ClearTimeout(ts, id) == {t \in ts : t.id # id}

SetTimeoutDropped(ts, cb, ms, arg) == ts

SetTimeout(ts, cb, ms, arg) ==
    ts \cup {[id |-> nextId, cb |-> cb, due |-> now + ms, arg |-> arg]}

----------------------------------------------------------------------------
(* throttle(func, delay) *)

ThrottleReady(currentTime) == currentTime - lastExecTime > delay

ThrottleRemainingFull(currentTime) == delay

ThrottleRemaining(currentTime) == delay - (currentTime - lastExecTime)

\* the function throttle returns, called with argument arg
ThrottledCall(arg) ==
    /\ callLog' = Append(callLog, now)
    /\ IF ThrottleReady(now)
         THEN /\ execLog' = Append(execLog, [t |-> now, arg |-> arg, sync |-> TRUE])
              /\ lastExecTime' = now
              /\ UNCHANGED <<timeoutId, timers, nextId>>
         ELSE /\ timers' = SetTimeout(ClearTimeout(timers, timeoutId), "throttle",
                                      ThrottleRemaining(now), arg)
              /\ timeoutId' = nextId
              /\ nextId' = nextId + 1
              /\ UNCHANGED <<execLog, lastExecTime>>

\* the callback throttle passes to setTimeout
ThrottleTimer(t) ==
    /\ execLog' = Append(execLog, [t |-> now, arg |-> t.arg, sync |-> FALSE])
    /\ lastExecTime' = now

----------------------------------------------------------------------------
(* debounce(func, delay) *)

\* the function debounce returns, called with argument arg
DebouncedCall(arg) ==
    /\ callLog' = Append(callLog, now)
    /\ timers' = SetTimeout(ClearTimeout(timers, timeoutId), "debounce", delay, arg)
    /\ timeoutId' = nextId
    /\ nextId' = nextId + 1
    /\ UNCHANGED <<execLog, lastExecTime>>

\* the callback debounce passes to setTimeout
DebounceTimer(t) ==
    /\ execLog' = Append(execLog, [t |-> now, arg |-> t.arg, sync |-> FALSE])
    /\ UNCHANGED lastExecTime

----------------------------------------------------------------------------
(* The event loop *)

\* the browser runs a timer's callback at or after its deadline
TimerFire ==
    \E t \in timers :
        /\ now >= t.due
        /\ timers' = timers \ {t}
        /\ IF t.cb = "throttle" THEN ThrottleTimer(t) ELSE DebounceTimer(t)
        /\ UNCHANGED <<now, delay, timeoutId, nextId, callLog, run, script, start>>
        /\ UNCHANGED trackerVars
        /\ UNCHANGED formVars

\* no pending timer is later than MaxLate
TimersAllow == \A t \in timers : now < t.due + MaxLate

\* time passes in a free-running run
Tick ==
    /\ run = "free"
    /\ now < MaxTime
    /\ TimersAllow
    /\ now' = now + 1
    /\ UNCHANGED <<delay, lastExecTime, timeoutId, timers, nextId,
                   callLog, execLog, run, script, start>>
    /\ UNCHANGED trackerVars
    /\ UNCHANGED formVars

\* an event calls the throttled handler
ThrottleCall ==
    /\ run = "free"
    /\ Len(callLog) < MaxCalls
    /\ ThrottledCall(Len(callLog) + 1)
    /\ UNCHANGED <<now, delay, run, script, start>>
    /\ UNCHANGED trackerVars
    /\ UNCHANGED formVars

\* an event calls the debounced handler
DebounceCall ==
    /\ run = "free"
    /\ Len(callLog) < MaxCalls
    /\ DebouncedCall(Len(callLog) + 1)
    /\ UNCHANGED <<now, delay, run, script, start>>
    /\ UNCHANGED trackerVars
    /\ UNCHANGED formVars

\* time passes in an example run: every scripted call is made at its time
ExampleTick ==
    /\ run = "example"
    /\ now - start < ExampleEnd
    /\ TimersAllow
    /\ script # <<>> => now - start < Head(script)
    /\ now' = now + 1
    /\ UNCHANGED <<delay, lastExecTime, timeoutId, timers, nextId,
                   callLog, execLog, run, script, start>>
    /\ UNCHANGED trackerVars
    /\ UNCHANGED formVars

\* the next scripted call of the throttled handler
ThrottleExampleCall ==
    /\ run = "example"
    /\ script # <<>>
    /\ now - start = Head(script)
    /\ ThrottledCall(Len(callLog) + 1)
    /\ script' = Tail(script)
    /\ UNCHANGED <<now, delay, run, start>>
    /\ UNCHANGED trackerVars
    /\ UNCHANGED formVars

\* the next scripted call of the debounced handler
DebounceExampleCall ==
    /\ run = "example"
    /\ script # <<>>
    /\ now - start = Head(script)
    /\ DebouncedCall(Len(callLog) + 1)
    /\ script' = Tail(script)
    /\ UNCHANGED <<now, delay, run, start>>
    /\ UNCHANGED trackerVars
    /\ UNCHANGED formVars

----------------------------------------------------------------------------
(* The page: CONFIG and the elements the script looks up *)

navOffset == 80         \* CONFIG.navOffset
scrolledAfter == 50     \* the offset past which the navigation bar is "scrolled"

MaxScroll == 120        \* the document scrolls from 0 to MaxScroll

\* an href attribute "#id", and a missing href attribute (getAttribute gives null)
Href(id) == <<"#", id>>
NoHref == <<>>

\* href.substring(1)
Substring1(href) == href[2]

Section(id, top, height) == [id |-> id, offsetTop |-> top, offsetHeight |-> height]

\* four sections one after the other, one nav link each
PlainPage ==
    [sections |-> << Section("home", 0, 90), Section("about", 90, 40),
                     Section("projects", 130, 40), Section("contact", 170, 30) >>,
     navLinks |-> << Href("home"), Href("about"), Href("projects"), Href("contact") >>,
     nav |-> TRUE]

\* nothing above the first section; a section nested in another; a gap; two sections
\* that overlap, the first of them without a nav link; two links to one section
NestedPage ==
    [sections |-> << Section("about", 85, 55), Section("skills", 100, 20),
                     Section("projects", 150, 30), Section("contact", 170, 25) >>,
     navLinks |-> << Href("about"), Href("skills"), Href("contact"), Href("contact") >>,
     nav |-> TRUE]

\* the plain page without the element of id 'nav'
NoNavPage == [PlainPage EXCEPT !.nav = FALSE]

\* the plain page with a .nav-link element that has no href, and a link to a
\* section the page does not have
BadLinkPage ==
    [PlainPage EXCEPT !.navLinks = << Href("home"), NoHref, Href("blog"), Href("contact") >>]

\* a section of no height; a section whose start lies inside a section that
\* comes after it in the document
OverlapPage ==
    [sections |-> << Section("top", 80, 0), Section("intro", 90, 50),
                     Section("banner", 85, 30), Section("contact", 140, 60) >>,
     navLinks |-> << Href("top"), Href("intro"), Href("banner"), Href("contact") >>,
     nav |-> TRUE]

TrackedPages == {PlainPage, NestedPage, OverlapPage}

AllPages == TrackedPages \cup {NoNavPage, BadLinkPage}

Links == 1..Len(page.navLinks)

Sections == 1..Len(page.sections)

----------------------------------------------------------------------------
(* PortfolioApp: the active-section tracker *)

ScrollPositionNoOffset(y) == y

\* updateActiveNavigation: scrollPosition
ScrollPosition(y) == y + navOffset

InSectionInclusive(pos, s) == pos >= s.offsetTop /\ pos <= s.offsetTop + s.offsetHeight

\* updateActiveNavigation: the test of one section
InSection(pos, s) == pos >= s.offsetTop /\ pos < s.offsetTop + s.offsetHeight

RECURSIVE UpdateNavLinksAddOnly(_, _, _)
UpdateNavLinksAddOnly(act, activeId, l) ==
    IF l > Len(page.navLinks) THEN [active |-> act, raised |-> FALSE]
    ELSE IF page.navLinks[l] = NoHref THEN [active |-> act, raised |-> TRUE]
    ELSE UpdateNavLinksAddOnly(
             [act EXCEPT ![l] = act[l] \/ (Substring1(page.navLinks[l]) = activeId)],
             activeId, l + 1)

\* updateNavLinks(activeId), from link l on: every link's 'active' class is set by
\* whether its href names activeId; a link without href makes substring throw
RECURSIVE UpdateNavLinks(_, _, _)
UpdateNavLinks(act, activeId, l) ==
    IF l > Len(page.navLinks) THEN [active |-> act, raised |-> FALSE]
    ELSE IF page.navLinks[l] = NoHref THEN [active |-> act, raised |-> TRUE]
    ELSE UpdateNavLinks([act EXCEPT ![l] = (Substring1(page.navLinks[l]) = activeId)],
                        activeId, l + 1)

RECURSIVE ForEachSectionFirstMatch(_, _, _)
ForEachSectionFirstMatch(pos, st, i) ==
    IF st.raised \/ i > Len(page.sections) THEN st
    ELSE IF InSection(pos, page.sections[i])
         THEN IF st.currentSection # page.sections[i].id
                THEN LET r == UpdateNavLinks(st.active, page.sections[i].id, 1)
                     IN  [currentSection |-> page.sections[i].id,
                          active |-> r.active, raised |-> r.raised]
                ELSE st
         ELSE ForEachSectionFirstMatch(pos, st, i + 1)

\* updateActiveNavigation: the forEach over elements.sections, from section i on;
\* st is [currentSection, active, raised]
RECURSIVE ForEachSection(_, _, _)
ForEachSection(pos, st, i) ==
    IF st.raised \/ i > Len(page.sections) THEN st
    ELSE IF /\ InSection(pos, page.sections[i])
            /\ st.currentSection # page.sections[i].id
         THEN LET r == UpdateNavLinks(st.active, page.sections[i].id, 1)
              IN  ForEachSection(pos,
                                 [currentSection |-> page.sections[i].id,
                                  active |-> r.active, raised |-> r.raised],
                                 i + 1)
         ELSE ForEachSection(pos, st, i + 1)

UpdateActiveNavigationClearing ==
    IF \A i \in Sections : ~InSection(ScrollPosition(scrollY), page.sections[i])
      THEN [currentSection |-> "", active |-> [l \in Links |-> FALSE], raised |-> FALSE]
      ELSE ForEachSection(ScrollPosition(scrollY),
                          [currentSection |-> currentSection, active |-> active,
                           raised |-> FALSE], 1)

\* updateActiveNavigation()
UpdateActiveNavigation ==
    ForEachSection(ScrollPosition(scrollY),
                   [currentSection |-> currentSection, active |-> active,
                    raised |-> FALSE], 1)

\* handleScroll(): updateActiveNavigation, then updateNavbarBackground, which
\* throws when there is no element of id 'nav'
RunHandleScroll ==
    LET st == UpdateActiveNavigation
    IN  /\ currentSection' = st.currentSection
        /\ active' = st.active
        /\ IF st.raised
             THEN raised' = TRUE /\ UNCHANGED navScrolled
             ELSE IF page.nav
                    THEN raised' = FALSE /\ navScrolled' = (scrollY > scrolledAfter)
                    ELSE raised' = TRUE /\ UNCHANGED navScrolled
        /\ handled' = TRUE

\* the scroll handler runs, whenever the rate limiter lets it
HandleScroll ==
    /\ RunHandleScroll
    /\ UNCHANGED <<page, scrollY, navTarget, dispatch>>
    /\ UNCHANGED limiterVars
    /\ UNCHANGED formVars

\* the user scrolls the window to offset y
ScrollEvent ==
    \E y \in 0..MaxScroll :
        /\ y # scrollY
        /\ scrollY' = y
        /\ handled' = FALSE
        /\ navTarget' = 0
        /\ dispatch' = TRUE
        /\ UNCHANGED <<page, currentSection, active, navScrolled, raised>>
        /\ UNCHANGED limiterVars
        /\ UNCHANGED formVars

\* the elements document.querySelector('#' + id) can give: the first section of that id
Targets(id) == {i \in Sections : page.sections[i].id = id}

\* window.scrollTo({top}): the browser keeps the offset within the document
ScrollTo(top) == IF top < 0 THEN 0 ELSE IF top > MaxScroll THEN MaxScroll ELSE top

OffsetTopOfSection(target) == target.offsetTop

\* scrollToSection: offsetTop
OffsetTop(target) == target.offsetTop - navOffset

\* handleNavClick(e) and the click listener of setupSmoothScroll, for a click on
\* NavLink l: both scroll to the target section, if the href names one
NavClick ==
    \E l \in Links :
        LET href == page.navLinks[l]
        IN  /\ raised' = FALSE
            /\ IF href # NoHref /\ href[1] = "#" /\ href # <<"#", "">>
                    /\ Targets(Substring1(href)) # {}
                 THEN LET t == CHOOSE i \in Targets(Substring1(href)) :
                                   \A j \in Targets(Substring1(href)) : i <= j
                          top == ScrollTo(OffsetTop(page.sections[t]))
                      IN  /\ scrollY' = top
                          /\ handled' = (handled /\ top = scrollY)
                          /\ dispatch' = (dispatch \/ top # scrollY)
                          /\ navTarget' = t
                 ELSE UNCHANGED <<scrollY, handled, dispatch, navTarget>>
            /\ UNCHANGED <<page, currentSection, active, navScrolled>>
            /\ UNCHANGED limiterVars
            /\ UNCHANGED formVars

\* the state of the page when the script has loaded
TrackerInit(pages) ==
    /\ page \in pages
    /\ scrollY = 0
    /\ currentSection = ""
    /\ active = [l \in Links |-> FALSE]
    /\ navScrolled = FALSE
    /\ raised = FALSE
    /\ handled = FALSE
    /\ navTarget = 0
    /\ dispatch = FALSE

\* no form field in use
FormIdle ==
    /\ field = [type |-> "text", required |-> FALSE]
    /\ value = <<>>
    /\ errorClass = FALSE
    /\ messages = <<>>
    /\ isValid = TRUE
    /\ lastEvent = [kind |-> "none", errorBefore |-> FALSE]

----------------------------------------------------------------------------
(* PortfolioApp: the scroll listener, throttle(handleScroll, scrollThrottle) *)

scrollThrottle == 16    \* CONFIG.scrollThrottle

MaxScrolls == 3         \* the listener is called at most MaxScrolls times
MaxQuiet == 3           \* with no timer pending, time is followed this far

\* the offsets the user scrolls to
ScrollStops == {0, 10, 36, 100}

\* the user scrolls the window to one of the stops; the browser will dispatch a
\* scroll event, one for all the scrolls made before it does
ScrollMove ==
    /\ run = "scroll"
    /\ Len(callLog) < MaxScrolls
    /\ \E y \in ScrollStops :
          /\ y # scrollY
          /\ scrollY' = y
    /\ handled' = FALSE
    /\ navTarget' = 0
    /\ dispatch' = TRUE
    /\ UNCHANGED <<page, currentSection, active, navScrolled, raised>>
    /\ UNCHANGED limiterVars
    /\ UNCHANGED formVars

\* the browser dispatches the scroll event: the throttled handleScroll is called,
\* and runs at once if the throttle window has passed
ScrollListener ==
    /\ run = "scroll"
    /\ dispatch
    /\ dispatch' = FALSE
    /\ ThrottledCall(Len(callLog) + 1)
    /\ IF ThrottleReady(now)
         THEN RunHandleScroll
         ELSE UNCHANGED <<currentSection, active, navScrolled, raised, handled>>
    /\ UNCHANGED <<page, scrollY, navTarget>>
    /\ UNCHANGED <<now, delay, run, script, start>>
    /\ UNCHANGED formVars

\* the timer set by the throttled listener fires: handleScroll runs and reads the
\* scroll offset of that moment
ScrollTimerFire ==
    /\ run = "scroll"
    /\ \E t \in timers :
          /\ now >= t.due
          /\ timers' = timers \ {t}
          /\ ThrottleTimer(t)
    /\ RunHandleScroll
    /\ UNCHANGED <<page, scrollY, navTarget, dispatch>>
    /\ UNCHANGED <<now, delay, timeoutId, nextId, callLog, run, script, start>>
    /\ UNCHANGED formVars

\* time passes while a timer is pending, and for a while when none is
ScrollTick ==
    /\ run = "scroll"
    /\ timers # {} \/ now - start < MaxQuiet
    /\ TimersAllow
    /\ now' = now + 1
    /\ UNCHANGED <<delay, lastExecTime, timeoutId, timers, nextId,
                   callLog, execLog, run, script, start>>
    /\ UNCHANGED trackerVars
    /\ UNCHANGED formVars

----------------------------------------------------------------------------
(* PortfolioApp: the contact form's field validation *)

MaxLen == 5     \* field values have up to MaxLen characters

\* the characters typed: a letter, the at sign, the dot, the space
Chars == {"a", "@", ".", " "}

\* the fields: input type=email, input type=text, textarea; required or not
Fields == [type : {"email", "text", "textarea"}, required : BOOLEAN]

TrimKeepsTrailing(v) ==
    IF v = <<>> \/ v[1] # " " THEN v
    ELSE LET first == CHOOSE i \in 1..(Len(v) + 1) :
                          /\ \A k \in 1..(i - 1) : v[k] = " "
                          /\ i <= Len(v) => v[i] # " "
         IN  SubSeq(v, first, Len(v))

\* String.prototype.trim: v without its leading and trailing whitespace
RECURSIVE Trim(_)
Trim(v) ==
    IF v = <<>> THEN v
    ELSE IF v[1] = " " THEN Trim(Tail(v))
    ELSE IF v[Len(v)] = " " THEN Trim(SubSeq(v, 1, Len(v) - 1))
    ELSE v

\* [^\s@]+ matches v[from..to]: at least one character, none a space or an at sign
NoSpaceAtRun(v, from, to) ==
    /\ from <= to
    /\ \A k \in from..to : v[k] # " " /\ v[k] # "@"

EmailRegexTestStar(v) ==
    \E i \in 1..Len(v) : \E j \in (i + 1)..Len(v) :
        /\ v[i] = "@" /\ v[j] = "."
        /\ \A k \in (1..(i - 1)) \cup ((i + 1)..(j - 1)) \cup ((j + 1)..Len(v)) :
              v[k] # " " /\ v[k] # "@"

\* emailRegex.test(v), for /^[^\s@]+@[^\s@]+\.[^\s@]+$/
EmailRegexTest(v) ==
    \E i \in 1..Len(v) : \E j \in (i + 1)..Len(v) :
        /\ v[i] = "@" /\ v[j] = "."
        /\ NoSpaceAtRun(v, 1, i - 1)
        /\ NoSpaceAtRun(v, i + 1, j - 1)
        /\ NoSpaceAtRun(v, j + 1, Len(v))

EmailMessage == "Por favor, insira um e-mail valido"
TextMessage == "Este campo deve ter pelo menos 2 caracteres"
RequiredMessage == "Este campo e obrigatorio"

TextTooShortAtTwo(v) == Len(v) <= 2

\* validateField, case 'text': value.length < 2
TextTooShort(v) == Len(v) < 2

RequiredMissingNever(v) == FALSE

\* validateField, default case: !value
RequiredMissing(v) == v = <<>>

\* validateField: the switch on field.type, for the trimmed value v; gives
\* [isValid, errorMessage]
FieldRule(f, v) ==
    IF f.type = "email"
      THEN IF v # <<>> /\ ~EmailRegexTest(v)
             THEN [isValid |-> FALSE, errorMessage |-> EmailMessage]
             ELSE [isValid |-> TRUE, errorMessage |-> ""]
    ELSE IF f.type = "text"
      THEN IF f.required /\ TextTooShort(v)
             THEN [isValid |-> FALSE, errorMessage |-> TextMessage]
             ELSE [isValid |-> TRUE, errorMessage |-> ""]
    ELSE IF f.required /\ RequiredMissing(v)
             THEN [isValid |-> FALSE, errorMessage |-> RequiredMessage]
             ELSE [isValid |-> TRUE, errorMessage |-> ""]

\* clearFieldError(field): the field's error display is removed; d is
\* [errorClass, messages]
ClearFieldError(d) == [errorClass |-> FALSE, messages |-> <<>>]

ShowFieldErrorKeepsOld(d, message) ==
    [errorClass |-> TRUE, messages |-> Append(d.messages, message)]

\* showFieldError(field, message): the class 'error' is added, the first
\* .error-message of the parent removed and a new one appended
ShowFieldError(d, message) ==
    [errorClass |-> TRUE,
     messages |-> Append(IF d.messages # <<>> THEN Tail(d.messages) ELSE d.messages,
                         message)]

ValidateFieldKeepsError(d) ==
    LET r == FieldRule(field, Trim(value))
    IN  [isValid |-> r.isValid,
         display |-> IF r.isValid THEN d ELSE ShowFieldError(d, r.errorMessage)]

\* validateField(field): gives [isValid, display]
ValidateField(d) ==
    LET r == FieldRule(field, Trim(value))
        cleared == ClearFieldError(d)
    IN  [isValid |-> r.isValid,
         display |-> IF r.isValid THEN cleared
                     ELSE ShowFieldError(cleared, r.errorMessage)]

\* the field's error display
Display == [errorClass |-> errorClass, messages |-> messages]

\* the blur listener of setupFormValidation
FieldBlur ==
    LET r == ValidateField(Display)
    IN  /\ errorClass' = r.display.errorClass
        /\ messages' = r.display.messages
        /\ isValid' = r.isValid
        /\ lastEvent' = [kind |-> "blur", errorBefore |-> errorClass]
        /\ UNCHANGED <<field, value>>
        /\ UNCHANGED limiterVars
        /\ UNCHANGED trackerVars

InputDisplayValidated(d) == ValidateField(d).display

\* the input listener of setupFormValidation: the display after it
InputDisplay(d) == ClearFieldError(d)

\* the user types a character or deletes the last one: an input event
FieldInput ==
    /\ \/ \E c \in Chars : Len(value) < MaxLen /\ value' = Append(value, c)
       \/ value # <<>> /\ value' = SubSeq(value, 1, Len(value) - 1)
    /\ errorClass' = InputDisplay(Display).errorClass
    /\ messages' = InputDisplay(Display).messages
    /\ lastEvent' = [kind |-> "input", errorBefore |-> errorClass]
    /\ UNCHANGED <<field, isValid>>
    /\ UNCHANGED limiterVars
    /\ UNCHANGED trackerVars

\* the value is emptied without an input event (form.reset() or an assignment to
\* field.value fires none)
FieldReset ==
    /\ value # <<>>
    /\ value' = <<>>
    /\ lastEvent' = [kind |-> "reset", errorBefore |-> errorClass]
    /\ UNCHANGED <<field, errorClass, messages, isValid>>
    /\ UNCHANGED limiterVars
    /\ UNCHANGED trackerVars

----------------------------------------------------------------------------
(* The specifications *)

\* a wrapper just created, at any small clock reading and with any small delay
LimiterInit ==
    /\ now \in 0..MaxStart
    /\ delay \in 0..MaxDelay
    /\ run = "free"
    /\ script = <<>>
    /\ lastExecTime = 0
    /\ timeoutId = 0
    /\ timers = {}
    /\ nextId = 1
    /\ callLog = <<>>
    /\ execLog = <<>>
    /\ start = now
    /\ TrackerInit({PlainPage})
    /\ FormIdle

\* a wrapper just created at a wall-clock reading, with the calls of a worked example
ExampleInit(calls) ==
    /\ now = Epoch
    /\ delay = ExampleDelay
    /\ run = "example"
    /\ script = calls
    /\ lastExecTime = 0
    /\ timeoutId = 0
    /\ timers = {}
    /\ nextId = 1
    /\ callLog = <<>>
    /\ execLog = <<>>
    /\ start = now
    /\ TrackerInit({PlainPage})
    /\ FormIdle

ThrottleExample == <<0, 5, 10, 60>>

DebounceExample == <<0, 10, 20>>

ThrottleInit == LimiterInit \/ ExampleInit(ThrottleExample)

ThrottleNext ==
    ThrottleCall \/ ThrottleExampleCall \/ TimerFire \/ Tick \/ ExampleTick

SpecThrottle == ThrottleInit /\ [][ThrottleNext]_vars

DebounceInit == LimiterInit \/ ExampleInit(DebounceExample)

DebounceNext ==
    DebounceCall \/ DebounceExampleCall \/ TimerFire \/ Tick \/ ExampleTick

SpecDebounce == DebounceInit /\ [][DebounceNext]_vars

PageNext == ScrollEvent \/ HandleScroll \/ NavClick

TrackedInit ==
    /\ now = Epoch
    /\ delay = 0
    /\ run = "free"
    /\ script = <<>>
    /\ lastExecTime = 0
    /\ timeoutId = 0
    /\ timers = {}
    /\ nextId = 1
    /\ callLog = <<>>
    /\ execLog = <<>>
    /\ start = now
    /\ TrackerInit(TrackedPages)
    /\ FormIdle

\* the tracker on the pages whose nav links all carry an href
SpecTracker == TrackedInit /\ [][PageNext]_vars

AllPagesInit ==
    /\ now = Epoch
    /\ delay = 0
    /\ run = "free"
    /\ script = <<>>
    /\ lastExecTime = 0
    /\ timeoutId = 0
    /\ timers = {}
    /\ nextId = 1
    /\ callLog = <<>>
    /\ execLog = <<>>
    /\ start = now
    /\ TrackerInit(AllPages)
    /\ FormIdle

\* the handlers on every page, those with missing elements included
SpecPage == AllPagesInit /\ [][PageNext]_vars

ScrollInit ==
    /\ now = Epoch
    /\ delay = scrollThrottle
    /\ run = "scroll"
    /\ script = <<>>
    /\ lastExecTime = 0
    /\ timeoutId = 0
    /\ timers = {}
    /\ nextId = 1
    /\ callLog = <<>>
    /\ execLog = <<>>
    /\ start = now
    /\ TrackerInit(TrackedPages)
    /\ FormIdle

ScrollNext == ScrollMove \/ ScrollListener \/ ScrollTimerFire \/ ScrollTick

\* the throttled scroll listener and the tracker; the browser dispatches every
\* scroll event, runs every timer that is due, and time passes
SpecScroll ==
    /\ ScrollInit /\ [][ScrollNext]_vars
    /\ WF_vars(ScrollListener) /\ WF_vars(ScrollTimerFire) /\ WF_vars(ScrollTick)

FormInit ==
    /\ now = Epoch
    /\ delay = 0
    /\ run = "free"
    /\ script = <<>>
    /\ lastExecTime = 0
    /\ timeoutId = 0
    /\ timers = {}
    /\ nextId = 1
    /\ callLog = <<>>
    /\ execLog = <<>>
    /\ start = now
    /\ TrackerInit({PlainPage})
    /\ field \in Fields
    /\ value = <<>>
    /\ errorClass = FALSE
    /\ messages = <<>>
    /\ isValid = TRUE
    /\ lastEvent = [kind |-> "none", errorBefore |-> FALSE]

FormNext == FieldBlur \/ FieldInput \/ FieldReset

\* a field of the contact form and its blur and input listeners
SpecForm == FormInit /\ [][FormNext]_vars

----------------------------------------------------------------------------
(* Claims about throttle, under SpecThrottle *)

\* the offset of the i-th execution from the creation of the wrapper
ExecAt(i) == execLog[i].t - start

\* an example run whose calls are all made and whose timers have all fired
ExampleDone == run = "example" /\ script = <<>> /\ timers = {}

\* C1, as stated: in the example run (delay 50, calls at 0, 5, 10, 60) the handler
\* executes exactly twice, at 0 and at about 60, and at no other time.
C1_ExampleFiresTwice ==
    run = "example" =>
        /\ Len(execLog) <= 2
        /\ \A i \in 1..Len(execLog) : ExecAt(i) = 0 \/ ExecAt(i) \in 60..(60 + MaxLate)
        /\ ExampleDone => Len(execLog) = 2

\* C1, amended: in the example run the handler executes exactly three times: inside
\* the call at 0, at about 50 from the timer of the calls at 5 and 10 (with the
\* arguments of the call at 10), and about 50 after that from the timer of the call
\* at 60; it executes inside no other call.
C1_ExampleFiresThrice ==
    run = "example" =>
        /\ Len(execLog) <= 3
        /\ Len(callLog) >= 1 => Len(execLog) >= 1
        /\ Len(execLog) >= 1 => execLog[1] = [t |-> start, arg |-> 1, sync |-> TRUE]
        /\ Len(execLog) >= 2 =>
              /\ ExecAt(2) \in delay..(delay + MaxLate)
              /\ execLog[2].arg = 3 /\ ~execLog[2].sync
        /\ Len(execLog) >= 3 =>
              /\ execLog[3].t - execLog[2].t \in delay..(delay + MaxLate)
              /\ execLog[3].arg = 4 /\ ~execLog[3].sync
        /\ ExampleDone => Len(execLog) = 3

\* C1, witness: the example run is over, with executions at 0, 50 and 100
C1_Witness ==
    /\ ExampleDone
    /\ Len(execLog) = 3
    /\ ExecAt(1) = 0 /\ ExecAt(2) = delay /\ ExecAt(3) = 2 * delay

\* C2, as stated: any two consecutive executions of the handler are at least
\* delay apart, whatever the timing of the calls and of the timer (here for the
\* wrappers created at a clock reading beyond delay, as a wall clock gives).
C2_RateBound ==
    start > delay =>
        \A i \in 2..Len(execLog) : execLog[i].t - execLog[i - 1].t >= delay

\* C3, as stated: the first call of the wrapper executes the handler inside the
\* call, whatever the clock reads and whatever the delay.
C3_LeadingEdge ==
    Len(callLog) >= 1 =>
        /\ Len(execLog) >= 1
        /\ execLog[1] = [t |-> callLog[1], arg |-> 1, sync |-> TRUE]

\* C4, as stated (its safety part): no execution with older arguments follows an
\* execution with newer arguments, and once no timer is pending the last
\* execution is at or after the last call and has its arguments (here for the
\* wrappers created at a clock reading beyond delay, as a wall clock gives).
C4_TrailingEdge ==
    start > delay =>
        /\ \A i \in 2..Len(execLog) : execLog[i - 1].arg < execLog[i].arg
        /\ (timers = {} /\ callLog # <<>>) =>
              /\ execLog # <<>>
              /\ execLog[Len(execLog)].arg = Len(callLog)
              /\ execLog[Len(execLog)].t >= callLog[Len(callLog)]

----------------------------------------------------------------------------
(* Claims about debounce, under SpecDebounce *)

\* the executions made with the arguments of call a
ExecsOf(a) == {i \in 1..Len(execLog) : execLog[i].arg = a}

\* C5: the handler never executes inside a call; a call followed by another within
\* delay causes no execution; the last call of a burst causes exactly one, delay
\* after it (at most MaxLate later when the timer is late) and with its arguments;
\* every call leaves exactly one timer pending, its own.
C5_DebounceBurst ==
    /\ \A i \in 1..Len(execLog) : ~execLog[i].sync
    /\ \A a \in 1..Len(callLog) :
          /\ Cardinality(ExecsOf(a)) <= 1
          /\ (a < Len(callLog) /\ callLog[a + 1] - callLog[a] < delay) => ExecsOf(a) = {}
          /\ (a < Len(callLog) /\ callLog[a + 1] - callLog[a] > delay + MaxLate)
                => ExecsOf(a) # {}
          /\ (a = Len(callLog) /\ timers = {}) => ExecsOf(a) # {}
          /\ \A i \in ExecsOf(a) :
                execLog[i].t \in (callLog[a] + delay)..(callLog[a] + delay + MaxLate)
    /\ \A t \in timers :
          /\ timers = {t}
          /\ t.id = timeoutId /\ t.arg = Len(callLog)
          /\ t.due = callLog[Len(callLog)] + delay

\* C5, witness: a burst of three calls, each within delay of the one before, has
\* caused one execution, delay after the third call
C5_Witness ==
    /\ Len(callLog) = 3 /\ timers = {}
    /\ callLog[1] < callLog[2] /\ callLog[2] < callLog[3]
    /\ callLog[2] - callLog[1] < delay /\ callLog[3] - callLog[2] < delay
    /\ Len(execLog) = 1
    /\ execLog[1] = [t |-> callLog[3] + delay, arg |-> 3, sync |-> FALSE]

----------------------------------------------------------------------------
(* Claims about the pending timers, under SpecThrottle and SpecDebounce *)

\* the calls (by their number) in which the handler was executed at once
SyncCalls == {execLog[k].arg : k \in {m \in 1..Len(execLog) : execLog[m].sync}}

\* at most one timer is pending
AtMostOnePending == Cardinality(timers) <= 1

\* C19, as stated: at most one timer is pending, and no timer is pending when a
\* call executes the handler at once: no pending timer was set by a call made
\* before a call that executed the handler at once.
\* (for wrappers created at a clock reading above the delay)
C19_SinglePendingTimer ==
    start > delay =>
        /\ AtMostOnePending
        /\ \A t \in timers : \A c \in SyncCalls : t.arg > c

----------------------------------------------------------------------------
(* Claims about the active-section tracker, under SpecTracker and SpecPage *)

\* the sections whose range [start, start + height) contains y
SectionsAt(y) ==
    {i \in Sections : /\ page.sections[i].offsetTop <= y
                      /\ y < page.sections[i].offsetTop + page.sections[i].offsetHeight}

\* the sections containing the scroll offset itself
AtOffset == SectionsAt(scrollY)

\* the sections containing the scroll position, which is the offset plus navOffset
AtPosition == SectionsAt(scrollY + navOffset)

\* the NavLinks whose 'active' class is set
ActiveLinks == {l \in Links : active[l]}

\* the NavLinks whose href names the section of identifier id
LinksOf(id) == {l \in Links : page.navLinks[l] = <<"#", id>>}

\* the last of the sections i, in document order
LastOf(S) == CHOOSE i \in S : \A j \in S : j <= i

\* the first of the sections i, in document order
FirstOf(S) == CHOOSE i \in S : \A j \in S : i <= j

\* C6, as stated: once the scroll handler has run for a scroll offset inside the
\* range of exactly one section, exactly one NavLink is active and it names that
\* section.
C6_OffsetInsideSection ==
    \A i \in Sections :
        (handled /\ AtOffset = {i}) =>
            /\ Cardinality(ActiveLinks) = 1
            /\ ActiveLinks = LinksOf(page.sections[i].id)

\* C6, amended: once the scroll handler has run for a scroll offset whose position
\* (offset + navOffset) is inside the range of exactly one section, that section
\* is currentSection and the active NavLinks are exactly the links naming it.
C6_PositionInsideSection ==
    \A i \in Sections :
        (handled /\ AtPosition = {i}) =>
            /\ currentSection = page.sections[i].id
            /\ ActiveLinks = LinksOf(page.sections[i].id)

\* C6, witness: the handler has run for an offset inside one section whose position
\* is inside another, and the one link of that other section is active
C6_Witness ==
    /\ handled
    /\ \E i, j \in Sections :
          /\ i # j
          /\ AtOffset = {i}
          /\ AtPosition = {j}
          /\ ActiveLinks = LinksOf(page.sections[j].id)
          /\ Cardinality(ActiveLinks) = 1

\* C7, as stated: after handled scroll events exactly one NavLink is active and it
\* names the section containing the scroll position, or none is active when no
\* section contains the scroll position.
C7_ActiveFollowsPosition ==
    handled =>
        IF AtPosition = {}
          THEN ActiveLinks = {}
          ELSE /\ Cardinality(ActiveLinks) = 1
               /\ \E i \in AtPosition :
                      ActiveLinks = LinksOf(page.sections[i].id)

\* C7, amended: in every state the active NavLinks are exactly the links naming
\* currentSection (none before the first match); after a handled scroll event
\* whose position some section contains, currentSection is a section containing
\* it; when no section contains it, the links of the section matched before
\* may still be active.
C7_ActiveFollowsCurrentSection ==
    /\ ActiveLinks = LinksOf(currentSection)
    /\ currentSection = "" => ActiveLinks = {}
    /\ (handled /\ AtPosition # {}) =>
          \E i \in AtPosition : currentSection = page.sections[i].id

\* C7, witness: the handler has run for a position no section contains, and a
\* NavLink is active
C7_Witness ==
    /\ handled
    /\ AtPosition = {}
    /\ Cardinality(ActiveLinks) = 1

\* C8, as stated: when several sections contain the position, the first of them
\* in document order is currentSection after the handler, and only its NavLink
\* is active.
C8_FirstMatchWins ==
    (handled /\ Cardinality(AtPosition) >= 2) =>
        LET first == page.sections[FirstOf(AtPosition)]
        IN  /\ currentSection = first.id
            /\ ActiveLinks = LinksOf(first.id)

\* C8, amended: when several sections contain the position, the last of them in
\* document order is currentSection after the handler, and the active NavLinks
\* are exactly the links naming it.
C8_LastMatchWins ==
    (handled /\ Cardinality(AtPosition) >= 2) =>
        LET last == page.sections[LastOf(AtPosition)]
        IN  /\ currentSection = last.id
            /\ ActiveLinks = LinksOf(last.id)

\* C8, witness: the handler has run for a position inside a section and a section
\* nested in it, and the link of the nested section is the active one
C8_Witness ==
    /\ handled
    /\ Cardinality(AtPosition) = 2
    /\ currentSection = page.sections[LastOf(AtPosition)].id
    /\ Cardinality(ActiveLinks) = 1
    /\ ActiveLinks # LinksOf(page.sections[FirstOf(AtPosition)].id)

\* C9: a run of the scroll handler for a position no section contains leaves
\* currentSection and every NavLink's active flag as they were.
C9_NoMatchFrame ==
    [][(handled' /\ scrollY' = scrollY /\ AtPosition = {})
          => (currentSection' = currentSection /\ active' = active)]_vars

\* C9, witness: the handler has run for a position below the last section, and
\* the section matched before is still current, its link still active
C9_Witness ==
    /\ handled
    /\ AtPosition = {}
    /\ \A i \in Sections :
          scrollY + navOffset >= page.sections[i].offsetTop + page.sections[i].offsetHeight
    /\ currentSection # ""
    /\ ActiveLinks = LinksOf(currentSection) /\ ActiveLinks # {}

\* every active NavLink names currentSection
ActiveNamesCurrent == \A l \in ActiveLinks : page.navLinks[l] = <<"#", currentSection>>

\* NavLink flags change only in a run of the scroll handler for a position inside
\* a section that is not the one recorded
RewrittenOnlyByOtherMatch ==
    [][active' # active =>
          /\ handled' /\ scrollY' = scrollY
          /\ \E i \in AtPosition : page.sections[i].id # currentSection]_vars

\* C16, as stated: every active NavLink names currentSection, NavLink flags are
\* rewritten only by a scroll event that matches a section other than the one
\* recorded, and a scroll event that matches the section recorded in
\* currentSection leaves currentSection and the flags unchanged.
C16_MatchOfCurrentIsNoop ==
    /\ []ActiveNamesCurrent
    /\ RewrittenOnlyByOtherMatch
    /\ [][(/\ handled' /\ scrollY' = scrollY
            /\ \E i \in AtPosition : page.sections[i].id = currentSection)
             => (currentSection' = currentSection /\ active' = active)]_vars

\* C16, amended: every active NavLink names currentSection, NavLink flags change
\* only by a scroll event that matches a section other than the one recorded,
\* and a scroll event whose last matching section, in document order, is the one
\* recorded in currentSection leaves currentSection and the flags unchanged.
C16_LastMatchOfCurrentIsNoop ==
    /\ []ActiveNamesCurrent
    /\ RewrittenOnlyByOtherMatch
    /\ [][(/\ handled' /\ scrollY' = scrollY
            /\ AtPosition # {}
            /\ page.sections[LastOf(AtPosition)].id = currentSection)
             => (currentSection' = currentSection /\ active' = active)]_vars

\* C16, witness: the handler has run for a position inside two sections, the
\* first of them recorded before, and the second is now recorded and active
C16_Witness ==
    /\ handled
    /\ Cardinality(AtPosition) = 2
    /\ currentSection = page.sections[LastOf(AtPosition)].id
    /\ ActiveLinks = LinksOf(currentSection) /\ ActiveLinks # {}
    /\ navTarget = 0

\* the section a click on a NavLink has scrolled to, with no scroll by the user
\* since, once the scroll handler has run at the offset reached
Arrived(i) ==
    /\ handled /\ navTarget = i
    /\ page.sections[i].offsetTop - 80 \in 0..MaxScroll

\* section i is current and the active NavLinks are the links naming it
CurrentAndActive(i) ==
    /\ currentSection = page.sections[i].id
    /\ ActiveLinks = LinksOf(page.sections[i].id)

\* C18, as stated: a click on the NavLink of section S scrolls to S.start - 80,
\* where the tracker's position is S.start, and once the handler has run there S
\* is current and its link active, when S has a height and no section handled
\* before it contains S.start; for every S whose S.start - 80 can be scrolled to.
C18_RoundTripUnlessEarlierOverlaps ==
    \A i \in Sections :
        Arrived(i) =>
            /\ scrollY = page.sections[i].offsetTop - 80
            /\ (/\ page.sections[i].offsetHeight > 0
                /\ \A j \in SectionsAt(page.sections[i].offsetTop) : j >= i)
                  => CurrentAndActive(i)

\* C18, amended: the same, when S has a height and no section handled after it
\* (later in document order) contains S.start.
C18_RoundTripUnlessLaterOverlaps ==
    \A i \in Sections :
        Arrived(i) =>
            /\ scrollY = page.sections[i].offsetTop - 80
            /\ (/\ page.sections[i].offsetHeight > 0
                /\ \A j \in SectionsAt(page.sections[i].offsetTop) : j <= i)
                  => CurrentAndActive(i)

\* C18, witness: a click has scrolled to a section nested in an earlier section,
\* the handler has run, and the nested section is current and its link active
C18_Witness ==
    \E i \in Sections :
        /\ Arrived(i)
        /\ \E j \in SectionsAt(page.sections[i].offsetTop) : j < i
        /\ scrollY + 80 = page.sections[i].offsetTop
        /\ CurrentAndActive(i)
        /\ Cardinality(ActiveLinks) = 1

----------------------------------------------------------------------------
(* Claims about the throttled scroll listener, under SpecScroll *)

\* the user has scrolled
Scrolled == callLog # <<>> \/ dispatch

\* C17: once scroll events (at least one) stop, the tracker runs at or after the
\* last of them: from some moment on the handler has run for the final offset
\* with no event left to dispatch, and if the final position is inside exactly
\* one section, that section is currentSection, and stays so.
C17_ScrollQuiescence ==
    <>[](Scrolled =>
            /\ handled /\ ~dispatch
            /\ \A i \in Sections :
                   AtPosition = {i} => currentSection = page.sections[i].id)

\* C17, witness: the last scroll event was deferred by the throttle, the timer has
\* run the handler after it, and the one section at the position is current
C17_Witness ==
    /\ run = "scroll"
    /\ Len(callLog) = MaxScrolls /\ ~dispatch /\ timers = {}
    /\ handled
    /\ ~execLog[Len(execLog)].sync
    /\ execLog[Len(execLog)].arg = MaxScrolls
    /\ \E i \in Sections :
          /\ AtPosition = {i}
          /\ currentSection = page.sections[i].id
          /\ ActiveLinks = LinksOf(currentSection)

----------------------------------------------------------------------------
(* Claims about missing elements, under SpecPage *)

\* C10, as stated: no handler ends by throwing, whatever elements the page lacks.
C10_NoExceptions == ~raised

----------------------------------------------------------------------------
(* Claims about the field validator, under SpecForm *)

\* the positions of v that hold no space
NonSpaces(v) == {k \in 1..Len(v) : v[k] # " "}

\* v from its first to its last character that is no space
Stripped(v) ==
    IF NonSpaces(v) = {} THEN <<>>
    ELSE SubSeq(v, CHOOSE k \in NonSpaces(v) : \A m \in NonSpaces(v) : k <= m,
                   CHOOSE k \in NonSpaces(v) : \A m \in NonSpaces(v) : m <= k)

\* the positions of character c in v
Places(v, c) == {k \in 1..Len(v) : v[k] = c}

\* v has exactly one "@", at least one "." after it, and no whitespace
OneAtThenDot(v) ==
    /\ Cardinality(Places(v, "@")) = 1
    /\ Places(v, " ") = {}
    /\ \E p \in Places(v, "@") : \E q \in Places(v, ".") : q > p

\* v is local@domain.tld: no whitespace, exactly one "@", which is not the first
\* character, and after it a "." that neither follows the "@" at once nor ends v
LocalAtDomainTld(v) ==
    /\ Cardinality(Places(v, "@")) = 1
    /\ Places(v, " ") = {}
    /\ \E p \in Places(v, "@") :
          /\ p > 1
          /\ \E q \in Places(v, ".") : q > p + 1 /\ q < Len(v)

\* the rule of the field's type holds of its value
RuleHolds ==
    IF field.type = "email"
      THEN Stripped(value) = <<>> \/ LocalAtDomainTld(Stripped(value))
    ELSE IF field.type = "text"
      THEN field.required => Len(Stripped(value)) >= 2
    ELSE field.required => Stripped(value) # <<>>

\* the message of the field's type
MessageOfType ==
    IF field.type = "email" THEN EmailMessage
    ELSE IF field.type = "text" THEN TextMessage ELSE RequiredMessage

ErrorDisplayed == errorClass /\ messages = <<MessageOfType>>

NoErrorDisplayed == ~errorClass /\ messages = <<>>

C12_InputClears ==
    /\ [](lastEvent.kind = "input" => NoErrorDisplayed)
    /\ [][(NoErrorDisplayed /\ ~NoErrorDisplayed') => lastEvent'.kind = "blur"]_vars

\* C12, witness: an input event has removed a displayed error although the new
\* value still fails the rule
C12_Witness ==
    /\ lastEvent = [kind |-> "input", errorBefore |-> TRUE]
    /\ ~RuleHolds /\ NoErrorDisplayed

\* C13, as stated: after a blur an email field is valid exactly if its (trimmed)
\* value is empty or has exactly one "@", a "." after it and no whitespace.
C13_EmailOneAtThenDot ==
    (lastEvent.kind = "blur" /\ field.type = "email") =>
        (isValid <=> (Stripped(value) = <<>> \/ OneAtThenDot(Stripped(value))))

\* C13, amended: after a blur an email field is valid exactly if its trimmed value
\* is empty or is local@domain.tld with a non-empty local part, domain and tld;
\* the e-mail message is displayed exactly if it is not valid.
C13_EmailLocalAtDomainTld ==
    (lastEvent.kind = "blur" /\ field.type = "email") =>
        /\ isValid <=> (Stripped(value) = <<>> \/ LocalAtDomainTld(Stripped(value)))
        /\ IF isValid THEN NoErrorDisplayed
           ELSE errorClass /\ messages = <<EmailMessage>>

\* C13, witness: a blur has accepted a@a.a on an email field
C13_Witness ==
    /\ lastEvent.kind = "blur" /\ field.type = "email"
    /\ value = <<"a", "@", "a", ".", "a">>
    /\ isValid /\ NoErrorDisplayed

\* C14: after a blur a required text field is invalid exactly if its trimmed value
\* has fewer than 2 characters; a text field that is not required is valid.
C14_RequiredText ==
    (lastEvent.kind = "blur" /\ field.type = "text") =>
        /\ field.required => (~isValid <=> Len(Stripped(value)) < 2)
        /\ ~field.required => isValid
        /\ IF isValid THEN NoErrorDisplayed
           ELSE errorClass /\ messages = <<TextMessage>>

\* C14, witness: a blur has rejected " a " on a required text field
C14_Witness ==
    /\ lastEvent.kind = "blur" /\ field.type = "text" /\ field.required
    /\ value = <<" ", "a", " ">>
    /\ ~isValid /\ messages = <<TextMessage>>

\* C15, as stated: after a blur a required field that is neither email nor text is
\* invalid exactly if its trimmed value is empty, and a required field of any
\* type is invalid when its trimmed value is empty.
C15_RequiredNotEmpty ==
    lastEvent.kind = "blur" =>
        /\ (field.required /\ field.type \notin {"email", "text"})
              => (~isValid <=> Stripped(value) = <<>>)
        /\ (field.required /\ Stripped(value) = <<>>) => ~isValid

====
